---- MODULE Spec2Model ----
(***************************************************************************)
(* Model of variant_topic_tools::MessageType (MessageType.h/.cpp): the     *)
(* value object (dataType, md5Sum, definition), its accessors, isValid(),  *)
(* clear() and the recursive definition loader load().                     *)
(*                                                                         *)
(* A std::string is a sequence of one-character strings, so that length(), *)
(* find_first_of(), substr(), operator+= and getline() are computed the    *)
(* way the code computes them.                                             *)
(***************************************************************************)
EXTENDS Integers, Sequences, FiniteSets, TLC

(***************************************************************************)
(* Bounds of the model.                                                    *)
(***************************************************************************)
\* Largest number of lines of the definition text drawn for type A.
MaxLines == 2
\* Cap on the iterations of load's while loop explored by the model.
MaxIter == 7

(***************************************************************************)
(* std::string helpers.                                                    *)
(***************************************************************************)
\* std::string(n, c)
Rep(n, c) == [i \in 1..n |-> c]

\* std::string::npos: larger than the length of any string.
npos == 2147483647

RECURSIVE FindFrom(_, _, _)
FindFrom(s, c, i) ==
  IF i > Len(s) THEN npos
  ELSE IF s[i] = c THEN i - 1
  ELSE FindFrom(s, c, i + 1)

\* s.find_first_of(c): the 0-based index of the first c in s, or npos.
find_first_of(s, c) == FindFrom(s, c, 1)

\* s.substr(pos, n) and s.substr(pos), pos <= s.length().
substr(s, pos, n) == SubSeq(s, pos + 1, IF pos + n > Len(s) THEN Len(s) ELSE pos + n)
substrFrom(s, pos) == SubSeq(s, pos + 1, Len(s))

NL == "\n"

\* The lines std::getline(stream, line) yields for the text s: the pieces
\* between newlines; a final newline does not start a further line.
RECURSIVE getlines(_)
getlines(s) ==
  IF s = <<>> THEN <<>>
  ELSE LET i == find_first_of(s, NL) IN
       IF i = npos THEN <<s>>
       ELSE <<substr(s, 0, i)>> \o getlines(substrFrom(s, i + 1))

(***************************************************************************)
(* String literals of the code and of the model's inputs.                  *)
(***************************************************************************)
Header == <<"H", "e", "a", "d", "e", "r">>
std_msgs == <<"s", "t", "d", "_", "m", "s", "g", "s">>
std_msgs_Header == std_msgs \o <<"/">> \o Header
MsgDir == <<"/", "m", "s", "g", "/">>
MsgExt == <<".", "m", "s", "g">>
MsgTag == <<"M", "S", "G", ":", " ">>
Wildcard == <<"*">>
RuleLength == 80
MD5Length == 32

(***************************************************************************)
(* Exceptions (Exceptions.cpp).  what is the message, kept as the sequence *)
(* of the pieces the constructor concatenates.                             *)
(***************************************************************************)
NoException == [name |-> "none", what |-> <<>>]

InvalidDataTypeException ==
  [name |-> "InvalidDataTypeException",
   what |-> <<"Attempted use of an invalid data type">>]

InvalidMessageTypeException(invalidMessageType) ==
  [name |-> "InvalidMessageTypeException",
   what |-> <<"Message type [", invalidMessageType, "] is invalid">>]

PackageNotFoundException(package) ==
  [name |-> "PackageNotFoundException",
   what |-> <<"Package [", package, "] not found">>]

FileOpenException(filename) ==
  [name |-> "FileOpenException",
   what |-> <<"Error opening file [", filename, "]">>]

(***************************************************************************)
(* MessageDefinitionParser: the two line shapes of a member declaration,   *)
(*   <typeName>[<optionalSize>] <memberName>   and   <typeName> <memberName>*)
(* optionally followed by blanks and a comment.                            *)
(***************************************************************************)
Letters ==
  {"a", "b", "c", "d", "e", "f", "g", "h", "i", "j", "k", "l", "m",
   "n", "o", "p", "q", "r", "s", "t", "u", "v", "w", "x", "y", "z",
   "A", "B", "C", "D", "E", "F", "G", "H", "I", "J", "K", "L", "M",
   "N", "O", "P", "Q", "R", "S", "T", "U", "V", "W", "X", "Y", "Z"}
Digits == {"0", "1", "2", "3", "4", "5", "6", "7", "8", "9"}
NameChars == Letters \cup Digits \cup {"_"}
TypeChars == NameChars \cup {"/"}
Blanks == {" "}

RECURSIVE SpanEnd(_, _, _)
\* The index that follows the longest run of characters of class that starts
\* at index i of s.
SpanEnd(s, class, i) ==
  IF i <= Len(s) /\ s[i] \in class THEN SpanEnd(s, class, i + 1) ELSE i

\* What remains of a line after the member name: blanks, then nothing or a
\* comment.
LineEnds(line, i) ==
  LET e == SpanEnd(line, Blanks, i) IN e = Len(line) + 1 \/ line[e] = "#"

NoMatch == [matched |-> FALSE, memberName |-> <<>>, memberType |-> <<>>]

\* MessageDefinitionParser::match(line, memberName, memberType)
match(line) ==
  LET t == SpanEnd(line, TypeChars, 1)
      b == SpanEnd(line, Blanks, t)
      n == SpanEnd(line, NameChars, b)
  IN  IF t > 1 /\ b > t /\ n > b /\ LineEnds(line, n)
      THEN [matched |-> TRUE, memberName |-> SubSeq(line, b, n - 1),
            memberType |-> SubSeq(line, 1, t - 1)]
      ELSE NoMatch

\* MessageDefinitionParser::matchArray(line, memberName, memberType, memberSize)
matchArray(line) ==
  LET t == SpanEnd(line, TypeChars, 1)
      d == SpanEnd(line, Digits, t + 1)
      b == SpanEnd(line, Blanks, d + 1)
      n == SpanEnd(line, NameChars, b)
  IN  IF /\ t > 1 /\ t <= Len(line) /\ line[t] = "["
         /\ d <= Len(line) /\ line[d] = "]"
         /\ b > d + 1 /\ n > b /\ LineEnds(line, n)
      THEN [matched |-> TRUE, memberName |-> SubSeq(line, b, n - 1),
            memberType |-> SubSeq(line, 1, t - 1)]
      ELSE NoMatch

(***************************************************************************)
(* DataTypeRegistry: the identifiers registered as builtin types.          *)
(***************************************************************************)
int32 == <<"i", "n", "t", "3", "2">>
uint32 == <<"u">> \o int32
BuiltinTypes == {int32, uint32, <<"b", "o", "o", "l">>}

\* registry.getDataType(identifier).isBuiltin()
isBuiltin(identifier) == identifier \in BuiltinTypes

(***************************************************************************)
(* State.                                                                  *)
(***************************************************************************)
VARIABLES
  dataType,             \* MessageType::dataType
  md5Sum,               \* MessageType::md5Sum
  definition,           \* MessageType::definition
  pc,                   \* "idle", or the position of load(): "loop" inside
                        \* the while loop, "returned", "thrown"
  messageDataType,      \* the argument of the current or last load()
  requiredTypes,        \* load()'s std::set of discovered identifiers
  requiredTypesInOrder, \* load()'s std::list of pending identifiers
  exception,            \* the exception load() raised, or NoException
  packagePaths,         \* what ros::package::getPath answered during this load()
  messageFiles,         \* the definition files this load() tried to open
  pushed,               \* history: the identifiers in the order of push_back
  loaded,               \* history: the files read, in order
  handles,              \* the Publisher and the Subscriber returned for the
                        \* object as it is now
  peer,                 \* a second MessageType object and the load() of the
                        \* thread that uses it
  preempted             \* history: a thread was suspended inside the loop of
                        \* load() while the other thread was inside it too

vars ==
  <<dataType, md5Sum, definition, pc, messageDataType, requiredTypes,
    requiredTypesInOrder, exception, packagePaths, messageFiles, pushed, loaded,
    handles, peer, preempted>>

object == <<dataType, md5Sum, definition>>
locals == <<requiredTypes, requiredTypesInOrder>>
world == <<packagePaths, messageFiles>>
history == <<pushed, loaded>>
threads == <<peer, preempted>>

\* The object as a value, for the operations that read another object.
This == [dataType |-> dataType, md5Sum |-> md5Sum, definition |-> definition]

\* The object of a thread together with the thread's position in load() and
\* load()'s local variables.
Frame ==
  [dataType |-> dataType, md5Sum |-> md5Sum, definition |-> definition,
   pc |-> pc, messageDataType |-> messageDataType,
   requiredTypes |-> requiredTypes,
   requiredTypesInOrder |-> requiredTypesInOrder,
   exception |-> exception, pushed |-> pushed, loaded |-> loaded]

\* The second object as a value.
Peer ==
  [dataType |-> peer.dataType, md5Sum |-> peer.md5Sum,
   definition |-> peer.definition]

\* A handle without implementation: Publisher::impl or Subscriber::impl is
\* null.
NullImpl == <<>>

\* No Publisher and no Subscriber was returned.
NoHandles == [publisher |-> <<>>, subscriber |-> <<>>]

(***************************************************************************)
(* Inputs of the model.                                                    *)
(***************************************************************************)
pA == <<"p", "/", "A">>
pB == <<"p", "/", "B">>
pC == <<"p", "/", "C">>
qD == <<"q", "/", "D">>
Foo == <<"F", "o", "o">>
pkgType == <<"p", "k", "g", "/", "T", "y", "p", "e">>
field1 == <<"f", "i", "e", "l", "d", "1">>

\* A member declaration line, plain and array form.
Member(type, name) == type \o <<" ">> \o name
ArrayMember(type, name) == type \o <<"[", "]", " ">> \o name

RECURSIVE Join(_)
\* The lines of a text, separated by newlines.
Join(lines) ==
  IF lines = <<>> THEN <<>>
  ELSE IF Len(lines) = 1 THEN lines[1]
  ELSE lines[1] \o <<NL>> \o Join(Tail(lines))

\* The lines the definition text of type A is drawn from.
LineSamples ==
  { Member(int32, <<"x">>),
    Member(pB, <<"b">>),
    ArrayMember(pB, <<"b", "s">>),
    Member(pC, <<"c">>),
    Member(Header, <<"h">>),
    Member(Foo, <<"f">>) }

\* The texts of at most MaxLines lines.
TextsOfLines ==
  { Join(ls) : ls \in UNION { [1..n -> LineSamples] : n \in 0..MaxLines } }

Comment == <<"#", " ", "c">>

\* The contents the definition file of a bare type name may have.
TextSamples(type) ==
  CASE type = <<"A">> -> TextsOfLines
    [] type = <<"B">> ->
         { <<>>,
           Member(int32, <<"x">>) \o <<" ">> \o Comment \o <<NL>>,
           Member(pA, <<"a">>),
           Member(<<"p", "/">>, <<"e">>),
           Member(pC, <<"c">>) \o <<NL>> \o Member(Header, <<"h">>) \o <<NL>> }
    [] type = <<"C">> ->
         { <<>>,
           Comment \o <<NL>> \o Member(int32, <<"y">>),
           Member(pB, <<"b">>) \o <<NL>> \o Member(pC, <<"c">>) }
    [] type = Header ->
         { <<>>, Member(uint32, <<"s", "e", "q">>) \o <<NL>>,
           Member(pB, <<"b">>) \o <<NL>> }
    [] OTHER -> {}

\* The identifiers load() is called with.
LoadSamples ==
  { pA, pB, Header, std_msgs_Header, Foo, qD, <<"p", "/">>, <<"/", "A">>, <<>> }

DataTypeSamples == { <<>>, pkgType }
DefinitionSamples == { <<>>, field1 }
MD5SumSamples ==
  { <<>>, Wildcard, <<"a">>, <<"*", "*">>,
    Rep(MD5Length, "a"), Rep(MD5Length, "g"),
    Rep(MD5Length - 1, "a") \o <<"z">>,
    Rep(MD5Length - 1, "a"), Rep(MD5Length + 1, "a") }

(***************************************************************************)
(* MessageType: constructor, accessors, isValid(), clear().                *)
(***************************************************************************)
\* isValid() without the test of the length of md5Sum.
isValidAnyLength(t) ==
  /\ t.md5Sum # <<>>
  /\ t.dataType # <<>>
  /\ t.definition # <<>>

\* MessageType::isValid()
isValid(t) ==
  /\ t.md5Sum # <<>>
  /\ (t.md5Sum = Wildcard \/ Len(t.md5Sum) = MD5Length)
  /\ t.dataType # <<>>
  /\ t.definition # <<>>

\* Outside load() nothing of a load is kept.
NoLoad ==
  /\ pc' = "idle"
  /\ messageDataType' = <<>>
  /\ requiredTypes' = {}
  /\ requiredTypesInOrder' = <<>>
  /\ exception' = NoException
  /\ packagePaths' = {}
  /\ messageFiles' = {}
  /\ pushed' = <<>>
  /\ loaded' = <<>>
  /\ handles' = NoHandles
  /\ UNCHANGED threads

\* MessageType::setDataType
setDataType(d) ==
  /\ pc # "loop"
  /\ dataType' = d
  /\ UNCHANGED <<md5Sum, definition>>
  /\ NoLoad

\* MessageType::setMD5Sum
setMD5Sum(m) ==
  /\ pc # "loop"
  /\ md5Sum' = m
  /\ UNCHANGED <<dataType, definition>>
  /\ NoLoad

\* MessageType::setDefinition
setDefinition(t) ==
  /\ pc # "loop"
  /\ definition' = t
  /\ UNCHANGED <<dataType, md5Sum>>
  /\ NoLoad

\* The fields MessageType::clear() leaves.
Cleared == [dataType |-> <<>>, md5Sum |-> Wildcard, definition |-> <<>>]

\* clear() leaving md5Sum as it is.
clearKeepsSignature ==
  /\ pc # "loop"
  /\ dataType' = <<>>
  /\ definition' = <<>>
  /\ UNCHANGED md5Sum
  /\ NoLoad

\* MessageType::clear()
clear ==
  /\ pc # "loop"
  /\ dataType' = Cleared.dataType
  /\ md5Sum' = Cleared.md5Sum
  /\ definition' = Cleared.definition
  /\ NoLoad

\* An object outside load(), with the state of its thread.
IdleFrame(t) ==
  [dataType |-> t.dataType, md5Sum |-> t.md5Sum, definition |-> t.definition,
   pc |-> "idle", messageDataType |-> <<>>, requiredTypes |-> {},
   requiredTypesInOrder |-> <<>>, exception |-> NoException,
   pushed |-> <<>>, loaded |-> <<>>]

\* MessageType::MessageType() with its default arguments.
DefaultFrame == IdleFrame(Cleared)

\* operator== comparing the definition too.
equalsWithDefinition(a, b) ==
  a.dataType = b.dataType /\ a.md5Sum = b.md5Sum /\ a.definition = b.definition

\* MessageType::operator==
equals(a, b) == a.dataType = b.dataType /\ a.md5Sum = b.md5Sum

\* MessageType::operator!=
notEquals(a, b) == a.dataType # b.dataType \/ a.md5Sum # b.md5Sum

(***************************************************************************)
(* MessageType::advertise() and MessageType::subscribe().                  *)
(***************************************************************************)
\* Publisher::Impl and Subscriber::Impl, constructed for the type t.
Impl(t) == <<[type |-> t]>>

\* advertise() binding the publisher whether or not the type is valid.
PublisherAlwaysBound(t) == [impl |-> Impl(t)]

\* Lines 202-208: the Publisher advertise() returns for the type t.
Publisher(t) == [impl |-> IF isValid(t) THEN Impl(t) ELSE NullImpl]

\* Lines 215-220: the Subscriber subscribe() returns for the type t.
Subscriber(t) == [impl |-> Impl(t)]

\* MessageType::advertise
advertise ==
  /\ pc # "loop"
  /\ handles' = [handles EXCEPT !.publisher = <<Publisher(This)>>]
  /\ UNCHANGED <<object, pc, messageDataType, locals, exception, world,
                 history, threads>>

\* MessageType::subscribe
subscribe ==
  /\ pc # "loop"
  /\ handles' = [handles EXCEPT !.subscriber = <<Subscriber(This)>>]
  /\ UNCHANGED <<object, pc, messageDataType, locals, exception, world,
                 history, threads>>

(***************************************************************************)
(* The environment of load(): ros::package::getPath and the definition     *)
(* files.  An answer is drawn when load() first asks and stays the same    *)
(* for the rest of that call.                                              *)
(***************************************************************************)
\* Where a package is installed when it is found.
InstallPath(package) == <<"/">> \o package

\* The answers ros::package::getPath(package) may give: the empty string
\* when the package is not found.
getPath(package) ==
  IF \E a \in packagePaths : a.package = package
  THEN { a.path : a \in { b \in packagePaths : b.package = package } }
  ELSE { <<>>, InstallPath(package) }

\* The outcomes of std::ifstream messageFile(messageFilename) and of reading
\* the whole file.
ifstream(messageFilename, type) ==
  IF \E f \in messageFiles : f.filename = messageFilename
  THEN { [is_open |-> f.is_open, text |-> f.text] :
           f \in { g \in messageFiles : g.filename = messageFilename } }
  ELSE { [is_open |-> FALSE, text |-> <<>>] }
         \cup { [is_open |-> TRUE, text |-> t] : t \in TextSamples(type) }

(***************************************************************************)
(* MessageType::load(messageDataType)                                      *)
(***************************************************************************)
\* load() without the clear() of md5Sum at its start.
BeginLoadKeepSignature(id) ==
  /\ pc # "loop"
  /\ dataType' = <<>>
  /\ definition' = <<>>
  /\ messageDataType' = id
  /\ requiredTypes' = {id}
  /\ requiredTypesInOrder' = <<id>>
  /\ pc' = "loop"
  /\ exception' = NoException
  /\ packagePaths' = (IF peer.pc = "idle" THEN {} ELSE packagePaths)
  /\ messageFiles' = (IF peer.pc = "idle" THEN {} ELSE messageFiles)
  /\ pushed' = <<id>>
  /\ loaded' = <<>>
  /\ handles' = NoHandles
  /\ UNCHANGED <<md5Sum, threads>>

\* Lines 99-107: clear() and the seeding of the set and of the list.
BeginLoad(id) ==
  /\ pc # "loop"
  /\ dataType' = Cleared.dataType
  /\ md5Sum' = Cleared.md5Sum
  /\ definition' = Cleared.definition
  /\ messageDataType' = id
  /\ requiredTypes' = {id}
  /\ requiredTypesInOrder' = <<id>>
  /\ pc' = "loop"
  /\ exception' = NoException
  /\ packagePaths' = (IF peer.pc = "idle" THEN {} ELSE packagePaths)
  /\ messageFiles' = (IF peer.pc = "idle" THEN {} ELSE messageFiles)
  /\ pushed' = <<id>>
  /\ loaded' = <<>>
  /\ handles' = NoHandles
  /\ UNCHANGED threads

\* Lines 113-120: currentType split at its first '/'.
SplitType(currentType) ==
  LET i == find_first_of(currentType, "/") IN
  IF i > 0 /\ i # npos
  THEN [package |-> substr(currentType, 0, i),
        type |-> substrFrom(currentType, i + 1)]
  ELSE [package |-> <<>>, type |-> currentType]

\* Qualify without the "Header" alias: every unqualified name is refused.
QualifyNoAlias(currentType) ==
  LET s == SplitType(currentType) IN
  IF s.package = <<>>
  THEN [exception |-> InvalidMessageTypeException(currentType),
        package |-> s.package, type |-> s.type]
  ELSE IF s.type = <<>>
  THEN [exception |-> InvalidDataTypeException,
        package |-> s.package, type |-> s.type]
  ELSE [exception |-> NoException, package |-> s.package, type |-> s.type]

\* Qualify raising the same exception for an empty bare type name as for an
\* unqualified name.
QualifyOneError(currentType) ==
  LET s == SplitType(currentType)
      package == IF s.package = <<>> /\ s.type = Header THEN std_msgs
                 ELSE s.package
  IN  IF package = <<>> \/ s.type = <<>>
      THEN [exception |-> InvalidMessageTypeException(currentType),
            package |-> package, type |-> s.type]
      ELSE [exception |-> NoException, package |-> package, type |-> s.type]

\* Lines 113-130: the package and the bare type of currentType, or the
\* exception raised for it.
Qualify(currentType) ==
  LET s == SplitType(currentType)
      package == IF s.package = <<>> /\ s.type = Header THEN std_msgs
                 ELSE s.package
  IN  IF package = <<>>
      THEN [exception |-> InvalidMessageTypeException(currentType),
            package |-> package, type |-> s.type]
      ELSE IF s.type = <<>>
      THEN [exception |-> InvalidDataTypeException,
            package |-> package, type |-> s.type]
      ELSE [exception |-> NoException, package |-> package, type |-> s.type]

\* Line 136: the file name of a definition.
MessageFilename(packagePath, type) == packagePath \o MsgDir \o type \o MsgExt

\* ScanLine inserting a new type right behind the front of the list, so that
\* the type discovered last is processed first.
ScanLineDepthFirst(line, w) ==
  LET a == matchArray(line)
      m == IF a.matched THEN a ELSE match(line)
      memberType == IF m.memberType = Header THEN std_msgs_Header
                    ELSE m.memberType
  IN  IF m.matched /\ ~isBuiltin(memberType) /\ memberType \notin w.set
      THEN [set |-> w.set \cup {memberType},
            list |-> <<Head(w.list), memberType>> \o Tail(w.list),
            pushed |-> Append(w.pushed, memberType)]
      ELSE w

\* ScanLine without the test of the set: a type is pushed every time a
\* member declares it.
ScanLineNoSet(line, w) ==
  LET a == matchArray(line)
      m == IF a.matched THEN a ELSE match(line)
      memberType == IF m.memberType = Header THEN std_msgs_Header
                    ELSE m.memberType
  IN  IF m.matched /\ ~isBuiltin(memberType)
      THEN [set |-> w.set \cup {memberType},
            list |-> Append(w.list, memberType),
            pushed |-> Append(w.pushed, memberType)]
      ELSE w

\* ScanLine without the test of the registry: a builtin member type is pushed
\* like any other.
ScanLineBuiltinToo(line, w) ==
  LET a == matchArray(line)
      m == IF a.matched THEN a ELSE match(line)
      memberType == IF m.memberType = Header THEN std_msgs_Header
                    ELSE m.memberType
  IN  IF m.matched /\ memberType \notin w.set
      THEN [set |-> w.set \cup {memberType},
            list |-> Append(w.list, memberType),
            pushed |-> Append(w.pushed, memberType)]
      ELSE w

\* ScanLine pushing a new type without inserting it into the set.
ScanLineNoInsert(line, w) ==
  LET a == matchArray(line)
      m == IF a.matched THEN a ELSE match(line)
      memberType == IF m.memberType = Header THEN std_msgs_Header
                    ELSE m.memberType
  IN  IF m.matched /\ ~isBuiltin(memberType) /\ memberType \notin w.set
      THEN [set |-> w.set,
            list |-> Append(w.list, memberType),
            pushed |-> Append(w.pushed, memberType)]
      ELSE w

\* Lines 161-171: one line of a definition: a member of a type that is not
\* builtin and not yet required is inserted into the set and pushed back.
\* w holds the set, the list and the history of the pushes.
ScanLine(line, w) ==
  LET a == matchArray(line)
      m == IF a.matched THEN a ELSE match(line)
      memberType == IF m.memberType = Header THEN std_msgs_Header
                    ELSE m.memberType
  IN  IF m.matched /\ ~isBuiltin(memberType) /\ memberType \notin w.set
      THEN [set |-> w.set \cup {memberType},
            list |-> Append(w.list, memberType),
            pushed |-> Append(w.pushed, memberType)]
      ELSE w

RECURSIVE ScanLines(_, _)
\* Lines 157-173: the getline loop.
ScanLines(lines, w) ==
  IF lines = <<>> THEN w
  ELSE ScanLines(Tail(lines), ScanLine(Head(lines), w))

\* Lines 176-177: the separator put before the text of a further type.
Separator(currentType) ==
  <<NL>> \o Rep(RuleLength, "=") \o <<NL>> \o MsgTag \o currentType \o <<NL>>

\* AppendDefinition putting the separator before the first text too.
AppendDefinitionSeparated(def, currentType, messageDefinition) ==
  def \o Separator(currentType) \o messageDefinition

\* Lines 175-179: the definition after messageDefinition is added to it.
AppendDefinition(def, currentType, messageDefinition) ==
  (IF def # <<>> THEN def \o Separator(currentType) ELSE def)
    \o messageDefinition

\* An exception leaves load(): the locals are destroyed, the object stays as
\* it is.
Throw(e) ==
  /\ pc' = "thrown"
  /\ exception' = e
  /\ requiredTypes' = {}
  /\ requiredTypesInOrder' = <<>>
  /\ UNCHANGED <<object, messageDataType, history, handles, threads>>

\* Process setting dataType as soon as the text of the root is added, before
\* the loop has finished.
ProcessSetsDataType(currentType, messageFilename, messageDefinition) ==
  LET w0 == [set |-> requiredTypes, list |-> requiredTypesInOrder,
             pushed |-> pushed]
      w == IF messageDefinition # <<>>
           THEN ScanLines(getlines(messageDefinition), w0)
           ELSE w0
  IN  /\ definition' = IF messageDefinition # <<>>
                       THEN AppendDefinition(definition, currentType,
                                             messageDefinition)
                       ELSE definition
      /\ dataType' = IF messageDefinition # <<>> THEN messageDataType
                     ELSE dataType
      /\ requiredTypes' = w.set
      /\ requiredTypesInOrder' = Tail(w.list)
      /\ pushed' = w.pushed
      /\ loaded' = Append(loaded, [type |-> currentType,
                                   filename |-> messageFilename,
                                   text |-> messageDefinition])
      /\ UNCHANGED <<md5Sum, messageDataType, pc, exception, handles, threads>>

\* Lines 153-182: the file was read: scan it, add it to the definition and
\* pop the front of the list.
Process(currentType, messageFilename, messageDefinition) ==
  LET w0 == [set |-> requiredTypes, list |-> requiredTypesInOrder,
             pushed |-> pushed]
      w == IF messageDefinition # <<>>
           THEN ScanLines(getlines(messageDefinition), w0)
           ELSE w0
  IN  /\ definition' = IF messageDefinition # <<>>
                       THEN AppendDefinition(definition, currentType,
                                             messageDefinition)
                       ELSE definition
      /\ requiredTypes' = w.set
      /\ requiredTypesInOrder' = Tail(w.list)
      /\ pushed' = w.pushed
      /\ loaded' = Append(loaded, [type |-> currentType,
                                   filename |-> messageFilename,
                                   text |-> messageDefinition])
      /\ UNCHANGED <<dataType, md5Sum, messageDataType, pc, exception,
                     handles, threads>>

\* Lines 109-183: one iteration of the while loop.
LoadIteration ==
  /\ pc = "loop"
  /\ requiredTypesInOrder # <<>>
  /\ Len(loaded) < MaxIter
  /\ LET currentType == Head(requiredTypesInOrder)
         q == Qualify(currentType)
     IN  IF q.exception # NoException
         THEN Throw(q.exception) /\ UNCHANGED world
         ELSE \E packagePath \in getPath(q.package) :
                /\ packagePaths' = packagePaths \cup
                     { [package |-> q.package, path |-> packagePath] }
                /\ IF packagePath = <<>>
                   THEN /\ Throw(PackageNotFoundException(q.package))
                        /\ UNCHANGED messageFiles
                   ELSE LET messageFilename ==
                              MessageFilename(packagePath, q.type)
                        IN  \E messageFile \in ifstream(messageFilename, q.type) :
                              /\ messageFiles' = messageFiles \cup
                                   { [filename |-> messageFilename,
                                      is_open |-> messageFile.is_open,
                                      text |-> messageFile.text] }
                              /\ IF messageFile.is_open
                                 THEN Process(currentType, messageFilename,
                                              messageFile.text)
                                 ELSE Throw(FileOpenException(messageFilename))

\* load() setting dataType also when the definition is empty.
FinalDataTypeAlways(def, id, dt) == id

\* Lines 185-186: the dataType load() ends with.
FinalDataType(def, id, dt) == IF def # <<>> THEN id ELSE dt

\* Lines 109, 185-187: the list is empty: load() returns.
EndLoad ==
  /\ pc = "loop"
  /\ requiredTypesInOrder = <<>>
  /\ dataType' = FinalDataType(definition, messageDataType, dataType)
  /\ pc' = "returned"
  /\ requiredTypes' = {}
  /\ UNCHANGED <<md5Sum, definition, messageDataType, requiredTypesInOrder,
                 exception, world, history, handles, threads>>

(***************************************************************************)
(* Specification.                                                          *)
(***************************************************************************)
\* MessageType::MessageType(dataType, md5Sum, definition): the object as
\* constructed, no load() called yet.
Init ==
  /\ dataType \in DataTypeSamples
  /\ md5Sum \in MD5SumSamples
  /\ definition \in DefinitionSamples
  /\ pc = "idle"
  /\ messageDataType = <<>>
  /\ requiredTypes = {}
  /\ requiredTypesInOrder = <<>>
  /\ exception = NoException
  /\ packagePaths = {}
  /\ messageFiles = {}
  /\ pushed = <<>>
  /\ loaded = <<>>
  /\ handles = NoHandles
  /\ peer = DefaultFrame
  /\ preempted = FALSE

Next ==
  \/ \E d \in DataTypeSamples : setDataType(d)
  \/ \E m \in MD5SumSamples : setMD5Sum(m)
  \/ \E t \in DefinitionSamples : setDefinition(t)
  \/ clear
  \/ \E id \in LoadSamples : BeginLoad(id)
  \/ LoadIteration
  \/ EndLoad

Spec == Init /\ [][Next]_vars

\* load() runs to its end once called: its loop is never suspended.
LiveSpec == Spec /\ WF_vars(LoadIteration) /\ WF_vars(EndLoad)

(***************************************************************************)
(* The object used as a value: constructed, set and cleared, and handed to *)
(* advertise() and subscribe().                                            *)
(***************************************************************************)
ValueNext ==
  \/ \E d \in DataTypeSamples : setDataType(d)
  \/ \E m \in MD5SumSamples : setMD5Sum(m)
  \/ \E t \in DefinitionSamples : setDefinition(t)
  \/ clear
  \/ advertise
  \/ subscribe

ValueSpec == Init /\ [][ValueNext]_vars

(***************************************************************************)
(* Two objects, each used by its own thread.  The variables hold the       *)
(* object and the load() of the thread that runs, peer those of the other  *)
(* thread; the definition files are the same for both.                     *)
(***************************************************************************)
\* The locals of load() being shared by the two calls instead of each call
\* having its own.
SwitchSharedLocals ==
  /\ peer' = Frame
  /\ dataType' = peer.dataType
  /\ md5Sum' = peer.md5Sum
  /\ definition' = peer.definition
  /\ pc' = peer.pc
  /\ messageDataType' = peer.messageDataType
  /\ exception' = peer.exception
  /\ pushed' = peer.pushed
  /\ loaded' = peer.loaded
  /\ handles' = NoHandles
  /\ preempted' = (preempted \/ (pc = "loop" /\ peer.pc = "loop"))
  /\ UNCHANGED <<locals, world>>

\* The running thread is suspended between two steps and the other thread
\* runs: each thread has its object, its position and its own locals
\* (lines 103-104).
Switch ==
  /\ peer' = Frame
  /\ dataType' = peer.dataType
  /\ md5Sum' = peer.md5Sum
  /\ definition' = peer.definition
  /\ pc' = peer.pc
  /\ messageDataType' = peer.messageDataType
  /\ requiredTypes' = peer.requiredTypes
  /\ requiredTypesInOrder' = peer.requiredTypesInOrder
  /\ exception' = peer.exception
  /\ pushed' = peer.pushed
  /\ loaded' = peer.loaded
  /\ handles' = NoHandles
  /\ preempted' = (preempted \/ (pc = "loop" /\ peer.pc = "loop"))
  /\ UNCHANGED world

\* The objects the two threads start with.
PairMD5SumSamples == { Wildcard, Rep(MD5Length, "a") }
PairObjects ==
  { [dataType |-> pkgType, md5Sum |-> m, definition |-> field1] :
      m \in PairMD5SumSamples }

\* The identifiers the two threads call load() with.
PairLoadSamples == { pB, pC, <<"p", "/">> }

PairInit ==
  /\ dataType \in DataTypeSamples
  /\ md5Sum \in PairMD5SumSamples
  /\ definition \in DefinitionSamples
  /\ pc = "idle"
  /\ messageDataType = <<>>
  /\ requiredTypes = {}
  /\ requiredTypesInOrder = <<>>
  /\ exception = NoException
  /\ packagePaths = {}
  /\ messageFiles = {}
  /\ pushed = <<>>
  /\ loaded = <<>>
  /\ handles = NoHandles
  /\ peer \in { IdleFrame(t) : t \in PairObjects }
  /\ preempted = FALSE

\* Each thread calls load() once, at any time.
PairNext ==
  \/ \E id \in PairLoadSamples : pc = "idle" /\ BeginLoad(id)
  \/ LoadIteration
  \/ EndLoad
  \/ Switch

PairSpec == PairInit /\ [][PairNext]_vars

(***************************************************************************)
(* load() as a function: the call run from its first line to its last by   *)
(* one thread that is never suspended, with the answers the environment    *)
(* has given.                                                              *)
(***************************************************************************)
\* Lines 99-107.
Begun(id) ==
  [dataType |-> Cleared.dataType, md5Sum |-> Cleared.md5Sum,
   definition |-> Cleared.definition, pc |-> "loop", messageDataType |-> id,
   requiredTypes |-> {id}, requiredTypesInOrder |-> <<id>>,
   exception |-> NoException, pushed |-> <<id>>, loaded |-> <<>>]

\* An exception leaves load().
Raised(l, e) ==
  [l EXCEPT !.pc = "thrown", !.exception = e, !.requiredTypes = {},
            !.requiredTypesInOrder = <<>>]

\* Lines 109-183: one iteration of the while loop.
Iterated(l) ==
  LET currentType == Head(l.requiredTypesInOrder)
      q == Qualify(currentType)
      packagePath == CHOOSE path \in getPath(q.package) : TRUE
      messageFilename == MessageFilename(packagePath, q.type)
      messageFile == CHOOSE f \in ifstream(messageFilename, q.type) : TRUE
      w0 == [set |-> l.requiredTypes, list |-> l.requiredTypesInOrder,
             pushed |-> l.pushed]
      w == IF messageFile.text # <<>>
           THEN ScanLines(getlines(messageFile.text), w0)
           ELSE w0
  IN  IF q.exception # NoException THEN Raised(l, q.exception)
      ELSE IF packagePath = <<>>
      THEN Raised(l, PackageNotFoundException(q.package))
      ELSE IF ~messageFile.is_open
      THEN Raised(l, FileOpenException(messageFilename))
      ELSE [l EXCEPT
              !.definition = IF messageFile.text # <<>>
                             THEN AppendDefinition(@, currentType,
                                                   messageFile.text)
                             ELSE @,
              !.requiredTypes = w.set,
              !.requiredTypesInOrder = Tail(w.list),
              !.pushed = w.pushed,
              !.loaded = Append(@, [type |-> currentType,
                                    filename |-> messageFilename,
                                    text |-> messageFile.text])]

\* Lines 185-187.
Ended(l) ==
  [l EXCEPT !.dataType = FinalDataType(l.definition, l.messageDataType, @),
            !.pc = "returned", !.requiredTypes = {}]

RECURSIVE Run(_)
\* Lines 109-187: the loop run to its end.
Run(l) ==
  IF l.pc # "loop" \/ Len(l.loaded) >= MaxIter THEN l
  ELSE IF l.requiredTypesInOrder = <<>> THEN Ended(l)
  ELSE Run(Iterated(l))

\* load(id) run alone.
Alone(id) == Run(Begun(id))

(***************************************************************************)
(* Observations the properties are stated with.                            *)
(***************************************************************************)
Range(s) == { s[i] : i \in 1..Len(s) }
NoDuplicates(s) == \A i, j \in 1..Len(s) : s[i] = s[j] => i = j
Occurrences(s, x) == Cardinality({ i \in 1..Len(s) : s[i] = x })
FirstIndex(s, x) == CHOOSE i \in 1..Len(s) :
                      s[i] = x /\ \A j \in 1..(i - 1) : s[j] # x
Finished == pc \in {"returned", "thrown"}

\* The identifiers whose files were read, in the order of the reads.
LoadedTypes == [k \in 1..Len(loaded) |-> loaded[k].type]

\* The identifier at the front of the list when load() raised.
FailedType == pushed[Len(loaded) + 1]

RuleLine == Rep(RuleLength, "=")

RECURSIVE BannersFrom(_, _)
BannersFrom(lines, i) ==
  IF i >= Len(lines) THEN <<>>
  ELSE IF /\ lines[i] = RuleLine
          /\ Len(lines[i + 1]) >= Len(MsgTag)
          /\ SubSeq(lines[i + 1], 1, Len(MsgTag)) = MsgTag
       THEN <<substrFrom(lines[i + 1], Len(MsgTag))>> \o BannersFrom(lines, i + 2)
       ELSE BannersFrom(lines, i + 1)

\* The identifiers named by the separator blocks of a definition text (a rule
\* line followed by a "MSG: " line), in the order of the text.
BannerTypes(text) == BannersFrom(getlines(text), 1)

\* The number of blocks an identifier has in the definition: the unprefixed
\* first block belongs to the root, every other block to the identifier its
\* separator names.
BlockCount(id) ==
  (IF id = messageDataType /\ definition # <<>> THEN 1 ELSE 0)
    + Occurrences(BannerTypes(definition), id)

\* The type a line declares a member of, "Header" read as std_msgs/Header;
\* the empty string when the line declares no member.
DeclaredType(line) ==
  LET a == matchArray(line)
      m == IF a.matched THEN a ELSE match(line)
  IN  IF ~m.matched THEN <<>>
      ELSE IF m.memberType = Header THEN std_msgs_Header
      ELSE m.memberType

\* The types of the compound (not builtin) members of a text, in line order.
CompoundMembers(text) ==
  LET ls == getlines(text)
      types == [i \in 1..Len(ls) |-> DeclaredType(ls[i])]
  IN  SelectSeq(types, LAMBDA t : t # <<>> /\ ~isBuiltin(t))

\* The number of member fields, over all files read, that declare type id.
MemberFields(id) ==
  LET n[k \in 0..Len(loaded)] ==
        IF k = 0 THEN 0
        ELSE n[k - 1] + Occurrences(CompoundMembers(loaded[k].text), id)
  IN  n[Len(loaded)]

RECURSIVE Distinct(_)
\* s without the repetitions of its elements, in the order of s.
Distinct(s) ==
  IF s = <<>> THEN <<>>
  ELSE LET d == Distinct(SubSeq(s, 1, Len(s) - 1)) IN
       IF s[Len(s)] \in Range(d) THEN d ELSE Append(d, s[Len(s)])

\* s lists its elements in the order of their first push.
InDiscoveryOrder(s) ==
  /\ Range(s) \subseteq Range(pushed)
  /\ \A i, j \in 1..Len(s) :
       i < j => FirstIndex(pushed, s[i]) < FirstIndex(pushed, s[j])

(***************************************************************************)
(* C1: when load() fails with any error, also one raised for a nested      *)
(* dependency after earlier types were processed, the object is left       *)
(* cleared: dataType empty, md5Sum "*", definition empty.                  *)
(***************************************************************************)
C1_FailedLoadLeavesCleared == pc = "thrown" => This = Cleared

(***************************************************************************)
(* C2: during one load() every identifier is pushed at most once and its   *)
(* definition is read at most once, so it has at most one block in the     *)
(* definition; a nested type declared by two member fields has exactly one *)
(* block, at the position of its first discovery.                          *)
(***************************************************************************)
C2_OneBlockPerType ==
  pc # "idle" =>
  /\ NoDuplicates(pushed)
  /\ NoDuplicates(LoadedTypes)
  /\ \A id \in Range(pushed) : BlockCount(id) <= 1
  /\ InDiscoveryOrder(BannerTypes(definition))
  /\ pc = "returned" =>
       \A id \in Range(pushed) :
         id # messageDataType /\ MemberFields(id) >= 2 => BlockCount(id) = 1

(***************************************************************************)
(* C3: load() processes the types in first-discovery (FIFO) order, one at  *)
(* a time: the files are read in the order of the pushes, the pending list *)
(* is the rest of the pushes, and the blocks of the definition follow the  *)
(* same order.  So the compound members of the root are read in their line *)
(* order and before every type discovered through a dependency.            *)
(***************************************************************************)
C3_FifoOrder ==
  pc # "idle" =>
  /\ Len(loaded) <= Len(pushed)
  /\ LoadedTypes = SubSeq(pushed, 1, Len(loaded))
  /\ pc = "loop" =>
       requiredTypesInOrder = SubSeq(pushed, Len(loaded) + 1, Len(pushed))
  /\ Len(BannerTypes(definition)) <= Len(loaded)
  /\ InDiscoveryOrder(BannerTypes(definition))
  /\ \A i, j \in 1..Len(BannerTypes(definition)) :
       i < j => FirstIndex(LoadedTypes, BannerTypes(definition)[i])
                  < FirstIndex(LoadedTypes, BannerTypes(definition)[j])
  /\ Len(loaded) >= 1 =>
       LET direct == Distinct(SelectSeq(CompoundMembers(loaded[1].text),
                                        LAMBDA t : t # messageDataType))
       IN  /\ Len(pushed) >= 1 + Len(direct)
           /\ SubSeq(pushed, 2, 1 + Len(direct)) = direct

\* A load returned whose root declares two compound members and whose first
\* member declares a further type: all four blocks are in the definition.
C3_Witness ==
  /\ pc = "returned"
  /\ Len(loaded) = 4
  /\ Len(BannerTypes(definition)) = 3
  /\ CompoundMembers(loaded[1].text) = <<pB, pC>>
  /\ LoadedTypes = <<pA, pB, pC, std_msgs_Header>>


\* id is <package>/<type> with both parts non-empty.
IsQualified(id) ==
  \E i \in 2..(Len(id) - 1) : id[i] = "/" /\ \A j \in 1..(i - 1) : id[j] # "/"

BuiltinOnlyRoot ==
  /\ pc # "idle"
  /\ Len(loaded) >= 1
  /\ IsQualified(messageDataType)
  /\ loaded[1].text # <<>>
  /\ CompoundMembers(loaded[1].text) = <<>>

(***************************************************************************)
(* C4: for a qualified root identifier whose definition is non-empty and   *)
(* declares only builtin member types, load() returns normally after       *)
(* exactly one file was read, with definition equal to the root's raw text *)
(* (no separator added) and dataType equal to the root identifier.         *)
(***************************************************************************)
C4_BuiltinOnlyRoot ==
  BuiltinOnlyRoot =>
    /\ pc # "thrown"
    /\ pc = "loop" => requiredTypesInOrder = <<>>
    /\ Len(loaded) = 1
    /\ Cardinality(messageFiles) = 1
    /\ definition = loaded[1].text
    /\ BannerTypes(definition) = <<>>
    /\ pc = "returned" => dataType = messageDataType

C4_Witness ==
  /\ BuiltinOnlyRoot
  /\ pc = "returned"
  /\ Len(getlines(loaded[1].text)) = 2
  /\ dataType = messageDataType
  /\ definition = loaded[1].text

(***************************************************************************)
(* C5: load() terminates, by returning or by raising, whatever the         *)
(* definitions are, also when their member references form cycles or       *)
(* self-references: a required type is never pushed again, so the loop     *)
(* runs at most once per distinct identifier.                              *)
(***************************************************************************)
C5_LoadTerminates ==
  /\ [](Len(loaded) <= Cardinality(Range(pushed)))
  /\ (pc = "loop") ~> Finished

\* A load returned although a definition declares a member of its own type
\* or of a type read before it.
C5_Witness ==
  /\ pc = "returned"
  /\ \E k \in 1..Len(loaded) :
       \E t \in Range(CompoundMembers(loaded[k].text)) :
         \E j \in 1..k : loaded[j].type = t

HexChars ==
  Digits \cup {"a", "b", "c", "d", "e", "f", "A", "B", "C", "D", "E", "F"}

(***************************************************************************)
(* C6: isValid() is true if and only if dataType is non-empty, definition  *)
(* is non-empty and md5Sum is either "*" or a string of exactly 32         *)
(* hexadecimal characters; a 32-character md5Sum with a non-hexadecimal    *)
(* character makes it false.                                               *)
(***************************************************************************)
C6_ValidIffHexSignature ==
  isValid(This) <=>
    /\ dataType # <<>>
    /\ definition # <<>>
    /\ \/ md5Sum = <<"*">>
       \/ Len(md5Sum) = 32 /\ \A i \in 1..Len(md5Sum) : md5Sum[i] \in HexChars

(***************************************************************************)
(* C7: isValid() is false whenever md5Sum is empty, or md5Sum is neither   *)
(* the one-character "*" nor of length 32, or dataType is empty, or        *)
(* definition is empty; and it is true for dataType "pkg/Type", md5Sum     *)
(* "*", definition "field1".                                               *)
(***************************************************************************)
C7_InvalidWhenIncomplete ==
  /\ ( \/ md5Sum = <<>>
       \/ md5Sum # <<"*">> /\ Len(md5Sum) # 32
       \/ dataType = <<>>
       \/ definition = <<>> ) => ~isValid(This)
  /\ This = [dataType |-> pkgType, md5Sum |-> <<"*">>, definition |-> field1]
       => isValid(This)

C7_Witness ==
  /\ dataType = pkgType
  /\ md5Sum = <<"*">>
  /\ definition = field1
  /\ isValid(This)


IsBare(id) == \A i \in 1..Len(id) : id[i] # "/"

HeaderFilename == InstallPath(std_msgs) \o MsgDir \o Header \o MsgExt

(***************************************************************************)
(* C8: load() of a bare unqualified identifier other than "Header" fails   *)
(* with InvalidMessageTypeException before any definition is read; load()  *)
(* of the bare "Header" resolves through the package std_msgs and, when    *)
(* that package is found and its Header definition is non-empty (and       *)
(* declares builtin members only, as std_msgs/Header does), returns with   *)
(* dataType equal to "Header".                                             *)
(***************************************************************************)
C8_BareIdentifiers ==
  /\ Finished /\ IsBare(messageDataType) /\ messageDataType # Header =>
       /\ pc = "thrown"
       /\ exception = InvalidMessageTypeException(messageDataType)
       /\ loaded = <<>>
       /\ packagePaths = {}
       /\ messageFiles = {}
       /\ This = Cleared
  /\ Finished /\ messageDataType = Header =>
       /\ \E a \in packagePaths : a.package = std_msgs
       /\ loaded = <<>> =>
            /\ pc = "thrown"
            /\ exception \in { PackageNotFoundException(std_msgs),
                               FileOpenException(HeaderFilename) }
       /\ loaded # <<>> =>
            /\ loaded[1].type = Header
            /\ loaded[1].filename = HeaderFilename
       /\ loaded # <<>> /\ loaded[1].text # <<>>
            /\ CompoundMembers(loaded[1].text) = <<>> =>
            /\ pc = "returned"
            /\ dataType = Header
            /\ definition = loaded[1].text

C8_Witness ==
  /\ pc = "returned"
  /\ messageDataType = Header
  /\ dataType = Header
  /\ loaded[1].filename = HeaderFilename
  /\ definition = loaded[1].text
  /\ definition # <<>>

\* The index of the first '/' of id when it follows a non-empty package, else 0.
QualifierAt(id) ==
  IF \E i \in 2..Len(id) : id[i] = "/" /\ \A j \in 1..(i - 1) : id[j] # "/"
  THEN CHOOSE i \in 2..Len(id) : id[i] = "/" /\ \A j \in 1..(i - 1) : id[j] # "/"
  ELSE 0

(***************************************************************************)
(* C9: each failure of load() is its own named error, for the root and for *)
(* a nested member type alike: a package qualifier with an empty bare type *)
(* name raises InvalidDataTypeException, an unqualified name other than    *)
(* "Header" raises InvalidMessageTypeException, a package getPath does not *)
(* find raises PackageNotFoundException, and a definition file that cannot *)
(* be opened raises FileOpenException.                                     *)
(***************************************************************************)
C9_NamedErrors ==
  pc = "thrown" =>
    LET cur == FailedType
        q == QualifierAt(cur)
        package == IF q > 0 THEN SubSeq(cur, 1, q - 1)
                   ELSE IF cur = Header THEN std_msgs ELSE <<>>
        bare == IF q > 0 THEN SubSeq(cur, q + 1, Len(cur)) ELSE cur
        filename == InstallPath(package) \o MsgDir \o bare \o MsgExt
        unqualified == q = 0 /\ cur # Header
        emptyType == q > 0 /\ bare = <<>>
        notFound == /\ ~unqualified /\ ~emptyType
                    /\ [package |-> package, path |-> <<>>] \in packagePaths
        notOpen == /\ ~unqualified /\ ~emptyType /\ ~notFound
                   /\ \E f \in messageFiles :
                        f.filename = filename /\ ~f.is_open
    IN  /\ Len(loaded) < Len(pushed)
        /\ unqualified \/ emptyType \/ notFound \/ notOpen
        /\ unqualified <=> exception = InvalidMessageTypeException(cur)
        /\ emptyType <=> exception = InvalidDataTypeException
        /\ notFound <=> exception = PackageNotFoundException(package)
        /\ notOpen <=> exception = FileOpenException(filename)
        /\ unqualified <=> exception.name = "InvalidMessageTypeException"
        /\ emptyType <=> exception.name = "InvalidDataTypeException"
        /\ notFound <=> exception.name = "PackageNotFoundException"
        /\ notOpen <=> exception.name = "FileOpenException"

\* A nested member type with an empty bare name failed the load after the
\* root was read.
C9_Witness ==
  /\ pc = "thrown"
  /\ Len(loaded) >= 1
  /\ FailedType = <<"p", "/">>
  /\ exception = InvalidDataTypeException

RECURSIVE Blocks(_)
\* The text made of the root's text and, for every further file read, the
\* separator block naming its type and its text.
Blocks(k) ==
  IF k = 0 THEN <<>>
  ELSE IF k = 1 THEN loaded[1].text
  ELSE Blocks(k - 1)
         \o <<"\n">> \o [i \in 1..80 |-> "="] \o <<"\n">>
         \o <<"M", "S", "G", ":", " ">> \o loaded[k].type \o <<"\n">>
         \o loaded[k].text

(***************************************************************************)
(* C10: in the definition of a load() that returned, the root block has no *)
(* prefix and every type processed after the root is preceded by exactly   *)
(* one separator block, an 80-character rule line followed by the line     *)
(* "MSG: " plus the type's identifier; so there are as many separator      *)
(* blocks as there are distinct non-root types discovered, and each names  *)
(* the type whose text follows it.                                         *)
(***************************************************************************)
C10_SeparatorPerType ==
  pc = "returned" =>
    /\ definition = Blocks(Len(loaded))
    /\ definition # <<>> =>
         /\ Len(BannerTypes(definition)) = Cardinality(Range(pushed)) - 1
         /\ BannerTypes(definition) = Tail(pushed)

(***************************************************************************)
(* C11: whether two MessageType objects are equal depends on dataType and  *)
(* md5Sum only: two objects with the same dataType and md5Sum are equal    *)
(* whatever their definitions, two objects that differ in dataType or in   *)
(* md5Sum are unequal also when their definitions are the same, and        *)
(* operator!= is the negation of operator== for every pair of objects.     *)
(***************************************************************************)
C11_EqualityIgnoresDefinition ==
  /\ dataType = peer.dataType /\ md5Sum = peer.md5Sum =>
       equals(This, Peer) /\ equals(Peer, This)
  /\ dataType # peer.dataType \/ md5Sum # peer.md5Sum =>
       ~equals(This, Peer) /\ ~equals(Peer, This)
  /\ notEquals(This, Peer) <=> ~equals(This, Peer)
  /\ notEquals(Peer, This) <=> ~equals(Peer, This)

\* Two objects that are equal although their definitions differ, one of them
\* as a load() left it.
C11_Witness ==
  /\ equals(This, Peer)
  /\ ~notEquals(This, Peer)
  /\ definition # peer.definition
  /\ pc = "returned"

(***************************************************************************)
(* C13: advertise() returns a publisher with an implementation if and only *)
(* if the MessageType is valid when it is called, and a publisher without  *)
(* implementation, raising nothing, otherwise; subscribe() returns a       *)
(* subscriber with an implementation whether or not the type is valid.     *)
(***************************************************************************)
C13_AdvertiseNeedsValidType ==
  /\ [](\A i \in 1..Len(handles.publisher) :
          /\ handles.publisher[i].impl # <<>> <=> isValid(This)
          /\ handles.publisher[i].impl # <<>> =>
               handles.publisher[i].impl = <<[type |-> This]>>)
  /\ [](\A i \in 1..Len(handles.subscriber) :
          handles.subscriber[i].impl = <<[type |-> This]>>)
  /\ [][advertise \/ subscribe => UNCHANGED <<object, pc, exception>>]_vars

\* For an object that is not valid, advertise() returned a publisher without
\* implementation and subscribe() a subscriber with one.
C13_Witness ==
  /\ ~isValid(This)
  /\ handles.publisher = <<[impl |-> <<>>]>>
  /\ Len(handles.subscriber) = 1
  /\ handles.subscriber[1].impl # <<>>

(***************************************************************************)
(* C14: two load() calls that run at the same time on two objects, their   *)
(* steps interleaved in any way, each end as the call ends when it runs    *)
(* alone: with the same fields or with the same exception.                 *)
(***************************************************************************)
C14_ConcurrentLoadsAsAlone ==
  /\ pc \in {"returned", "thrown"} => Frame = Alone(messageDataType)
  /\ peer.pc \in {"returned", "thrown"} => peer = Alone(peer.messageDataType)

\* Both calls ended after each was suspended inside its loop while the other
\* ran; both read two files or more and one file was read by both.
C14_Witness ==
  /\ preempted
  /\ pc = "returned" /\ peer.pc \in {"returned", "thrown"}
  /\ messageDataType # peer.messageDataType
  /\ Len(loaded) >= 2 /\ Len(peer.loaded) >= 2
  /\ \E i \in 1..Len(loaded) : \E j \in 1..Len(peer.loaded) :
       loaded[i].filename = peer.loaded[j].filename

(***************************************************************************)
(* C12: from any state the constructor, the setters, load() and clear()    *)
(* lead to, clear() leaves dataType empty, md5Sum "*" and definition       *)
(* empty, and isValid() called right after it returns false.               *)
(***************************************************************************)
C12_ClearResets ==
  [][ clear =>
        /\ dataType' = <<>>
        /\ md5Sum' = <<"*">>
        /\ definition' = <<>>
        /\ ~isValid([dataType |-> dataType', md5Sum |-> md5Sum',
                     definition |-> definition']) ]_vars

\* The object after clear(): no load is kept, the fields are reset.
C12_Witness ==
  /\ pc = "idle"
  /\ dataType = <<>> /\ md5Sum = <<"*">> /\ definition = <<>>
  /\ ~isValid(This)

RECURSIVE MembersUpTo(_)
\* The compound member types of the first k files read, in reading order.
MembersUpTo(k) ==
  IF k = 0 THEN <<>>
  ELSE MembersUpTo(k - 1) \o CompoundMembers(loaded[k].text)

\* The packages of the identifiers pushed so far that name one.
PushedPackages ==
  { Qualify(pushed[i]).package :
      i \in { j \in 1..Len(pushed) : Qualify(pushed[j]).package # <<>> } }

(***************************************************************************)
(* C15: a recognized member's type, "Header" read as "std_msgs/Header", is *)
(* pushed to the pending list if and only if the registry does not class   *)
(* it builtin and it is not yet in the set: the pushes are the root and    *)
(* then the compound member types of the files read, each at its first     *)
(* occurrence.  A builtin member type is never pushed, never looked up as  *)
(* a package and never read as a file.                                     *)
(***************************************************************************)
C15_EnqueueIffNew ==
  pc # "idle" =>
    /\ pushed = Distinct(<<messageDataType>> \o MembersUpTo(Len(loaded)))
    /\ \A i \in 2..Len(pushed) : ~isBuiltin(pushed[i])
    /\ \A k \in 1..Len(loaded) : ~isBuiltin(loaded[k].type)
    /\ \A a \in packagePaths : a.package \in PushedPackages
    /\ Cardinality(messageFiles) <= Len(pushed)
    /\ pc = "loop" => \A i \in 1..Len(requiredTypesInOrder) :
                        i > 1 => ~isBuiltin(requiredTypesInOrder[i])

\* A file was read that declares a builtin member, a "Header" member and a
\* compound member: the two compound types were pushed, the builtin was not.
C15_Witness ==
  /\ pc = "returned"
  /\ \E k \in 1..Len(loaded) :
       LET ls == getlines(loaded[k].text) IN
       /\ \E i \in 1..Len(ls) : isBuiltin(DeclaredType(ls[i]))
       /\ \E i \in 1..Len(ls) : match(ls[i]).memberType = Header
  /\ std_msgs_Header \in Range(pushed)
  /\ int32 \notin Range(pushed)

(***************************************************************************)
(* C16: when the root's definition file exists and is empty, load()        *)
(* returns without raising, has read exactly one file, and leaves dataType *)
(* empty and definition empty, so isValid() is false after a load that     *)
(* reported no failure.                                                    *)
(***************************************************************************)
C16_EmptyRootText ==
  pc # "idle" /\ Len(loaded) >= 1 /\ loaded[1].text = <<>> =>
    /\ pc # "thrown"
    /\ exception = NoException
    /\ pc = "loop" => requiredTypesInOrder = <<>>
    /\ Len(loaded) = 1
    /\ Cardinality(messageFiles) = 1
    /\ dataType = <<>>
    /\ definition = <<>>
    /\ ~isValid(This)

C16_Witness ==
  /\ pc = "returned"
  /\ exception = NoException
  /\ Len(loaded) = 1
  /\ loaded[1].text = <<>>
  /\ dataType = <<>>
  /\ ~isValid(This)

(***************************************************************************)
(* C17: whatever the fields were before the call, a load() that returns    *)
(* after reading a non-empty root text leaves md5Sum "*", dataType equal   *)
(* to the root identifier and definition non-empty, so isValid() is true;  *)
(* load() sets md5Sum to "*" when it starts and never changes it again.    *)
(***************************************************************************)
C17_LoadLeavesWildcard ==
  /\ [](pc = "returned" /\ loaded[1].text # <<>> =>
          /\ md5Sum = <<"*">>
          /\ dataType = messageDataType
          /\ definition # <<>>
          /\ isValid(This))
  /\ [](pc \in {"loop", "returned", "thrown"} => md5Sum = <<"*">>)
  /\ [][pc' = "loop" => md5Sum' = <<"*">>]_vars

C17_Witness ==
  /\ pc = "returned"
  /\ loaded[1].text # <<>>
  /\ md5Sum = <<"*">>
  /\ dataType = messageDataType
  /\ isValid(This)

(***************************************************************************)
(* C18: at every step of the loop of load() the working set is consistent: *)
(* the pending list holds no identifier twice, every pending identifier is *)
(* in the set, every identifier of the set was either read already or is   *)
(* pending, and the root identifier is in the set.                         *)
(***************************************************************************)
C18_WorkingSetConsistent ==
  pc = "loop" =>
    /\ NoDuplicates(requiredTypesInOrder)
    /\ Range(requiredTypesInOrder) \subseteq requiredTypes
    /\ \A id \in requiredTypes :
         id \in Range(LoadedTypes) \/ id \in Range(requiredTypesInOrder)
    /\ Range(LoadedTypes) \cap Range(requiredTypesInOrder) = {}
    /\ messageDataType \in requiredTypes

\* Inside the loop, after two files were read, with two identifiers pending.
C18_Witness ==
  /\ pc = "loop"
  /\ Len(loaded) = 2
  /\ Len(requiredTypesInOrder) = 2
  /\ Cardinality(requiredTypes) = 4

(***************************************************************************)
(* C19: dataType stays empty from the clear() at the start of load() until *)
(* the loop has finished without error: at every step inside load() and    *)
(* after a load() that failed, isValid() is false and advertise() would    *)
(* return a publisher without implementation.                              *)
(***************************************************************************)
C19_InvalidUntilReturned ==
  pc \in {"loop", "thrown"} =>
    /\ dataType = <<>>
    /\ ~isValid(This)
    /\ Publisher(This).impl = <<>>

\* A load failed on a nested type after the text of the root was added to the
\* definition.
C19_Witness ==
  /\ pc = "thrown"
  /\ Len(loaded) >= 1
  /\ definition # <<>>
  /\ dataType = <<>>
  /\ ~isValid(This)

(***************************************************************************)
(* C20: within one load() no definition file (package, bare type name) is  *)
(* read or added to the definition more than once, also when the same type *)
(* is named by the bare alias "Header" (the root identifier) and by        *)
(* "std_msgs/Header" (a member type): both are one entry.                  *)
(***************************************************************************)
C20_NoFileReadTwice ==
  pc # "idle" =>
    \A i, j \in 1..Len(loaded) :
      loaded[i].filename = loaded[j].filename => i = j

====
